---- MODULE Spec2Model ----
(***************************************************************************)
(* Model of the Lorl Server Host (src/node/server-node.js): the Registry   *)
(* `rooms`, the Room maps, the per-connection closure (room, playerId),    *)
(* the message, close and error handlers, and the heartbeat.               *)
(*                                                                         *)
(* Strings that are concatenated (gameId, roomId, room keys) are sequences *)
(* of one-character strings; the other strings are TLA+ strings.           *)
(* A Room (a JS Map) is a sequence of entries in insertion order.  A Room  *)
(* object is identified by the connection whose getRoom call created it.   *)
(***************************************************************************)
EXTENDS Integers, Sequences, FiniteSets, TLC

\* ---------------------------------------------------------------- bounds
MaxConns == 3
\* Messages processed in a behaviour of Spec, SpecKeys and SpecLive.
MaxMsgs == 3
\* Messages processed in a behaviour of SpecCap.
MaxMsgsCap == 4

\* MAX_PLAYERS is read from the environment (default '50'); the model runs
\* the server with a small capacity so that a full room is reached.
MAX_PLAYERS == 2

Conns == 1..MaxConns

\* ------------------------------------------------------- values and inputs
Null == "<null>"
Undefined == "<undefined>"
\* A parsed JSON object that has no primitive value, such as {"toString": 0}:
\* converting it to a string throws a TypeError.
NoPrimitive == "<object without primitive value>"

UNKNOWN == <<"u", "n", "k", "n", "o", "w", "n">>
DEFAULT == <<"d", "e", "f", "a", "u", "l", "t">>

\* Query parameters of a connection; <<>> is an absent or empty parameter.
GameParams == {<<"a">>}
RoomParams == {<<>>}
\* Query parameters with '_' characters, for the checks about room keys.
GameParamsKeys == {<<"a">>, <<"a", "_">>}
RoomParamsKeys == {<<"b">>, <<"_", "b">>}

\* playerId of a join message; Undefined is a message without the field.
PlayerIdInputs == {"p1", "p2", "", Undefined}
\* playerIds for the runs of joins with distinct playerIds.
PlayerIdsDistinct == {"p1", "p2", "p3"}
\* username of a join message; Undefined is a message without the field.
UsernameInputs == {"Al", "", Undefined}
\* data of a state_update or custom message.
Deltas == {("x" :> 1), ("x" :> 2 @@ "y" :> 1)}
EmptyData == [k \in {} |-> 0]
\* The data of a message without the field (undefined, written as a value
\* that no object equals).
UndefinedData == ("<undefined>" :> 0)
\* Message bodies that are not join, state_update or custom.
OtherBodies == {"unparsable", "null", "number", "no_type", "unknown_type"}

VARIABLES
    rooms,     \* the Registry: key -> Room object
    heap,      \* Room object -> its entries, in insertion order
    conn,      \* per connection: transport state and the handler's closure
    sent,      \* the messages sent by the last handler, in order
    last,      \* the last handler that ran, and what it observed
    msgsLeft,  \* number of messages the behaviour may still process
    crashed,   \* an exception escaped a handler
    tally      \* while the joins so far had distinct playerIds: these ids,
               \* and the accepted joins minus the leaves

vars == <<rooms, heap, conn, sent, last, msgsLeft, crashed, tally>>

\* The falsy values among those a playerId or a username takes here: null,
\* undefined and the empty string.
Falsy == {Null, Undefined, ""}

Truthy(v) == v \notin Falsy

\* ------------------------------------------------------------- Map helpers
MapHas(m, id) == \E i \in 1..Len(m) : m[i].id = id

MapIndex(m, id) == CHOOSE i \in 1..Len(m) : m[i].id = id

MapGet(m, id) == m[MapIndex(m, id)]

MapSet(m, id, s) ==
    IF MapHas(m, id)
    THEN [m EXCEPT ![MapIndex(m, id)] = s]
    ELSE Append(m, s)

MapDelete(m, id) == SelectSeq(m, LAMBDA s : s.id # id)

\* ------------------------------------------------------------ the Registry
\* The template literal `${gameId}__${roomId}`.
RoomKey(gameId, roomId) == gameId \o <<"_", "_">> \o roomId

\* url.searchParams.get(name) || dflt
ParamOr(v, dflt) == IF v = <<>> THEN dflt ELSE v

\* getRoom: the Registry after the call (the Room created by connection c
\* when the key is absent).
getRoomRegistry(rs, gameId, roomId, c) ==
    LET key == RoomKey(gameId, roomId)
    IN  IF key \in DOMAIN rs THEN rs ELSE rs @@ (key :> c)

\* getRoom: the Room object returned.
getRoom(rs, gameId, roomId, c) ==
    getRoomRegistry(rs, gameId, roomId, c)[RoomKey(gameId, roomId)]

\* cleanEmpty: the Registry without the keys whose Room has size 0.
cleanEmpty(rs, hp) ==
    [k \in {x \in DOMAIN rs : Len(hp[rs[x]]) # 0} |-> rs[k]]

\* ------------------------------------------------------ outbound messages
\* The value of member k is undefined (players is always an array, data is
\* an object or undefined, the other members are strings, null or undefined).
IsUndefined(k, v) ==
    CASE k = "players" -> FALSE
      [] k = "data" -> v = UndefinedData
      [] OTHER -> v = Undefined

\* JSON.stringify drops every member whose value is undefined.
Stringify(m) ==
    [f \in {k \in DOMAIN m : ~IsUndefined(k, m[k])} |-> m[f]]

ErrorMsg == Stringify([type |-> "error", message |-> "Room is full"])

PlayerEntry(s) == Stringify([id |-> s.id, username |-> s.username, data |-> s.data])

RoomStateMsg(room) ==
    [type |-> "room_state", players |-> [i \in 1..Len(room) |-> PlayerEntry(room[i])]]

PlayerJoinedMsg(pid, username) ==
    Stringify([type |-> "player_joined", playerId |-> pid, username |-> username])

StateUpdateMsg(pid, username, data) ==
    Stringify([type |-> "state_update", playerId |-> pid, username |-> username,
               data |-> data])

CustomMsg(pid, event, data) ==
    Stringify([type |-> "custom", playerId |-> pid, event |-> event, data |-> data])

PlayerLeftMsg(pid, username) ==
    Stringify([type |-> "player_left", playerId |-> pid, username |-> username])

\* sendTo: the sends it performs; cn gives each transport's readyState.
sendTo(cn, ws, msg) ==
    IF cn[ws].rs = "OPEN" THEN <<[to |-> ws, msg |-> msg]>> ELSE <<>>

\* broadcast's test of one entry.
Recipient(cn, s, excludeId) == s.id # excludeId /\ cn[s.ws].rs = "OPEN"

\* broadcast: the sends it performs, in the Map's iteration order.
RECURSIVE broadcast(_, _, _, _)
broadcast(cn, room, msg, excludeId) ==
    IF room = <<>> THEN <<>>
    ELSE (IF Recipient(cn, Head(room), excludeId)
          THEN <<[to |-> Head(room).ws, msg |-> msg]>>
          ELSE <<>>)
         \o broadcast(cn, Tail(room), msg, excludeId)

\* ------------------------------------------------------------ HTTP status
RECURSIVE SumSizes(_, _)
SumSizes(rs, hp) ==
    IF DOMAIN rs = {} THEN 0
    ELSE LET k == CHOOSE x \in DOMAIN rs : TRUE
         IN  Len(hp[rs[k]]) + SumSizes([x \in DOMAIN rs \ {k} |-> rs[x]], hp)

StatusRooms == Cardinality(DOMAIN rooms)
StatusPlayers == SumSizes(rooms, heap)

\* ------------------------------------------------------------------- Init
\* rs is ws.readyState ("NONE" before the connection exists); recv tells
\* whether the transport still reads frames; room and playerId are the
\* closure's variables; joins counts the joins the handler accepted and
\* errored tells whether 'error' was emitted.
NoConn ==
    [rs |-> "NONE", recv |-> FALSE, gameId |-> <<>>, roomId |-> <<>>, room |-> 0,
     playerId |-> Null, isAlive |-> FALSE, joins |-> 0, errored |-> FALSE]

\* The tally of the joins and leaves so far.  A leave is the first of
\* 'error' and 'close' of a connection that had a join accepted.  Once two
\* joins supplied the same playerId, or one supplied none, it is NoTally.
NoTally == [distinct |-> FALSE, ids |-> {}, net |-> 0]

TallyJoin(t, pid, accepted) ==
    IF t.distinct /\ Truthy(pid) /\ pid \notin t.ids
    THEN [t EXCEPT !.ids = @ \cup {pid}, !.net = IF accepted THEN @ + 1 ELSE @]
    ELSE NoTally

TallyLeave(t, k) ==
    IF t.distinct /\ k.joins > 0 /\ ~k.errored THEN [t EXCEPT !.net = @ - 1] ELSE t

\* What the last handler observed: the connection and its routing
\* parameters, its playerId variable after the handler, the data of the
\* message, the outcome, and from the state before the handler ran: the
\* connection's readyState, recv and joins, its Room object and that Room's
\* entries, and the status player total; for a sweep of the heartbeat, the
\* connections it terminated.
NoLast ==
    [op |-> "init", c |-> 0, gameId |-> <<>>, roomId |-> <<>>, pid |-> Null,
     data |-> <<>>, res |-> "", rs |-> "NONE", recv |-> FALSE, joins |-> 0,
     errored |-> FALSE, room |-> 0, pre |-> <<>>, players |-> 0, killed |-> {}]

Observed(op, c, pid, data, res) ==
    [op |-> op, c |-> c, gameId |-> conn[c].gameId, roomId |-> conn[c].roomId,
     pid |-> pid, data |-> data, res |-> res, rs |-> conn[c].rs,
     recv |-> conn[c].recv, joins |-> conn[c].joins,
     errored |-> conn[c].errored, room |-> conn[c].room,
     pre |-> heap[conn[c].room], players |-> SumSizes(rooms, heap),
     killed |-> {}]

Init ==
    /\ rooms = [k \in {} |-> 0]
    /\ heap = [r \in Conns |-> <<>>]
    /\ conn = [c \in Conns |-> NoConn]
    /\ sent = <<>>
    /\ last = NoLast
    /\ msgsLeft = MaxMsgs
    /\ crashed = FALSE
    /\ tally = [distinct |-> TRUE, ids |-> {}, net |-> 0]

\* The same state, for behaviours that process up to MaxMsgsCap messages.
InitCap ==
    /\ rooms = [k \in {} |-> 0]
    /\ heap = [r \in Conns |-> <<>>]
    /\ conn = [c \in Conns |-> NoConn]
    /\ sent = <<>>
    /\ last = NoLast
    /\ msgsLeft = MaxMsgsCap
    /\ crashed = FALSE
    /\ tally = [distinct |-> TRUE, ids |-> {}, net |-> 0]

\* ------------------------------------------------------------- connection
\* The request target of an upgrade: one that `new URL(req.url,
\* 'http://localhost')` parses, with its game and room parameters, or one
\* on which it throws (such as "//").
Target(game, roomParam) == [parses |-> TRUE, game |-> game, room |-> roomParam]

InvalidTarget == [parses |-> FALSE, game |-> <<>>, room |-> <<>>]

Targets == {Target(g, r) : g \in GameParams, r \in RoomParams}
TargetsKeys == {Target(g, r) : g \in GameParamsKeys, r \in RoomParamsKeys}

\* wss.on('connection'): connections are numbered in the order they open.
\* When the request target does not parse, the TypeError of `new URL`
\* escapes the handler before getRoom and before any listener is added.
Connect(c, target) ==
    /\ ~crashed
    /\ conn[c].rs = "NONE"
    /\ \A d \in Conns : d < c => conn[d].rs # "NONE"
    /\ IF ~target.parses
       THEN /\ crashed' = TRUE
            /\ last' = [NoLast EXCEPT !.op = "connect", !.c = c, !.res = "throws",
                           !.players = StatusPlayers]
            /\ UNCHANGED <<rooms, conn>>
       ELSE LET gameId == ParamOr(target.game, UNKNOWN)
                roomId == ParamOr(target.room, DEFAULT)
            IN  /\ rooms' = getRoomRegistry(rooms, gameId, roomId, c)
                /\ conn' = [conn EXCEPT ![c] =
                              [rs |-> "OPEN", recv |-> TRUE, gameId |-> gameId,
                               roomId |-> roomId,
                               room |-> getRoom(rooms, gameId, roomId, c),
                               playerId |-> Null, isAlive |-> TRUE, joins |-> 0,
                               errored |-> FALSE]]
                /\ last' = [NoLast EXCEPT !.op = "connect", !.c = c,
                               !.gameId = gameId, !.roomId = roomId,
                               !.room = getRoom(rooms, gameId, roomId, c),
                               !.players = StatusPlayers]
                /\ crashed' = crashed
    /\ sent' = <<>>
    /\ UNCHANGED <<heap, msgsLeft, tally>>

\* A 'message' event can be emitted for connection c: the transport still
\* reads frames (also after the server called ws.close(), until the peer's
\* close frame arrives), and the process is up.
CanReceive(c) ==
    /\ ~crashed
    /\ conn[c].rs \in {"OPEN", "CLOSING"}
    /\ conn[c].recv
    /\ msgsLeft > 0

\* ws.close(): an open transport starts the closing handshake.
wsClose(rs) == IF rs = "OPEN" THEN "CLOSING" ELSE rs

\* The capacity test off by one, and left out.
RoomIsFullOffByOne(room) == Len(room) > MAX_PLAYERS

RoomIsFullNever(room) == FALSE

\* The capacity test of case 'join'.
RoomIsFull(room) == Len(room) >= MAX_PLAYERS

\* msg.username || 'Player'
UsernameOr(u) == IF Truthy(u) THEN u ELSE "Player"

\* The template literal of console.log (line 104) converts playerId and
\* username to strings.
Printable(v) == v # NoPrimitive

\* case 'join'.  When the conversion of line 104 throws, the TypeError
\* escapes the handler after the sends and the insertion.
Join(c, pid, uname) ==
    /\ CanReceive(c)
    /\ LET r == conn[c].room
           room == heap[r]
           username == UsernameOr(uname)
           newRoom == MapSet(room, pid,
                             [id |-> pid, ws |-> c, username |-> username,
                              data |-> EmptyData])
       IN  IF RoomIsFull(room)
           THEN /\ sent' = sendTo(conn, c, ErrorMsg)
                /\ conn' = [conn EXCEPT ![c].playerId = pid, ![c].rs = wsClose(@)]
                /\ heap' = heap
                /\ last' = Observed("join", c, pid, <<>>, "full")
                /\ crashed' = crashed
           ELSE /\ sent' = sendTo(conn, c, RoomStateMsg(room))
                             \o broadcast(conn, newRoom,
                                          PlayerJoinedMsg(pid, username), pid)
                /\ conn' = [conn EXCEPT ![c].playerId = pid, ![c].joins = @ + 1]
                /\ heap' = [heap EXCEPT ![r] = newRoom]
                /\ last' = Observed("join", c, pid, <<>>,
                                    IF Printable(pid) /\ Printable(username)
                                    THEN "ok" ELSE "throws")
                /\ crashed' = ~(Printable(pid) /\ Printable(username))
    /\ tally' = TallyJoin(tally, pid, ~RoomIsFull(heap[conn[c].room]))
    /\ msgsLeft' = msgsLeft - 1
    /\ UNCHANGED rooms

\* { ...a, ...b }; spreading undefined adds nothing.
Merge(a, b) ==
    IF b = UndefinedData
    THEN a
    ELSE [k \in DOMAIN a \cup DOMAIN b |-> IF k \in DOMAIN b THEN b[k] ELSE a[k]]

\* case 'state_update'
StateUpdate(c, data) ==
    /\ CanReceive(c)
    /\ LET r == conn[c].room
           room == heap[r]
           pid == conn[c].playerId
       IN  IF Truthy(pid) /\ MapHas(room, pid)
           THEN LET session == MapGet(room, pid)
                    newRoom == MapSet(room, pid,
                                      [session EXCEPT !.data = Merge(@, data)])
                IN  /\ heap' = [heap EXCEPT ![r] = newRoom]
                    /\ sent' = broadcast(conn, newRoom,
                                         StateUpdateMsg(pid, session.username, data),
                                         pid)
                    /\ last' = Observed("state_update", c, pid, data, "ok")
           ELSE /\ heap' = heap
                /\ sent' = <<>>
                /\ last' = Observed("state_update", c, pid, data, "ignored")
    /\ msgsLeft' = msgsLeft - 1
    /\ UNCHANGED <<rooms, conn, crashed, tally>>

\* case 'custom'
Custom(c, event, data) ==
    /\ CanReceive(c)
    /\ sent' = broadcast(conn, heap[conn[c].room],
                         CustomMsg(conn[c].playerId, event, data), conn[c].playerId)
    /\ last' = Observed("custom", c, conn[c].playerId, data, "ok")
    /\ msgsLeft' = msgsLeft - 1
    /\ UNCHANGED <<rooms, heap, conn, crashed, tally>>

\* JSON.parse throws on an unparsable body (caught: return).  The parsed
\* value null has no property `type`: reading msg.type throws a TypeError
\* that nothing catches.  Every other value matches no case of the switch.
OtherOutcome(body) ==
    CASE body = "unparsable" -> "ignored"
      [] body = "null" -> "throws"
      [] OTHER -> "ignored"

Other(c, body) ==
    /\ CanReceive(c)
    /\ crashed' = (OtherOutcome(body) = "throws")
    /\ sent' = <<>>
    /\ last' = Observed("other", c, conn[c].playerId, <<>>, OtherOutcome(body))
    /\ msgsLeft' = msgsLeft - 1
    /\ UNCHANGED <<rooms, heap, conn, tally>>

\* The transport of connection c starts to close without a call of the
\* server: the peer's close frame or the end of its stream arrives.  The
\* readyState becomes CLOSING and no more frames are read; 'close' is
\* emitted in a later turn, once the socket has closed.
PeerClose(c) ==
    /\ ~crashed
    /\ conn[c].rs \in {"OPEN", "CLOSING"}
    /\ conn[c].recv
    /\ conn' = [conn EXCEPT ![c].rs = "CLOSING", ![c].recv = FALSE]
    /\ sent' = <<>>
    /\ last' = Observed("peer_close", c, conn[c].playerId, <<>>, "")
    /\ UNCHANGED <<rooms, heap, msgsLeft, crashed, tally>>

\* ws.on('close'): emitted for a transport that is CLOSING (after the
\* peer's close, an error, terminate(), or the server's ws.close() once
\* the socket has closed); the transport is CLOSED when the handler runs.
\* No handler of the connection runs after it, so its closure is dropped.
Close(c) ==
    /\ ~crashed
    /\ conn[c].rs = "CLOSING"
    /\ LET r == conn[c].room
           room == heap[r]
           pid == conn[c].playerId
           cn == [conn EXCEPT ![c] = [NoConn EXCEPT !.rs = "CLOSED"]]
       IN  /\ conn' = cn
           /\ IF ~Truthy(pid)
              THEN /\ heap' = heap
                   /\ rooms' = rooms
                   /\ sent' = <<>>
                   /\ last' = Observed("close", c, pid, <<>>, "unjoined")
              ELSE IF MapHas(room, pid)
              THEN LET session == MapGet(room, pid)
                       newRoom == MapDelete(room, pid)
                       hp == [heap EXCEPT ![r] = newRoom]
                   IN  /\ heap' = hp
                       /\ rooms' = cleanEmpty(rooms, hp)
                       /\ sent' = broadcast(cn, newRoom,
                                            PlayerLeftMsg(pid, session.username),
                                            Null)
                       /\ last' = Observed("close", c, pid, <<>>, "left")
              ELSE /\ heap' = heap
                   /\ rooms' = cleanEmpty(rooms, heap)
                   /\ sent' = <<>>
                   /\ last' = Observed("close", c, pid, <<>>, "absent")
    /\ tally' = TallyLeave(tally, conn[c])
    /\ UNCHANGED <<msgsLeft, crashed>>

\* ws.on('error'): the transport emits 'error' while it closes the
\* connection; it reads no more frames, and 'close' follows.
Error(c) ==
    /\ ~crashed
    /\ conn[c].rs \in {"OPEN", "CLOSING"}
    /\ conn[c].recv
    /\ LET r == conn[c].room
           pid == conn[c].playerId
           hp == IF Truthy(pid)
                 THEN [heap EXCEPT ![r] = MapDelete(@, pid)]
                 ELSE heap
       IN  /\ heap' = hp
           /\ rooms' = cleanEmpty(rooms, hp)
           /\ last' = Observed("error", c, pid, <<>>,
                               IF Truthy(pid) /\ MapHas(heap[r], pid)
                               THEN "left" ELSE "absent")
    /\ conn' = [conn EXCEPT ![c].rs = "CLOSING", ![c].recv = FALSE,
                             ![c].errored = TRUE]
    /\ sent' = <<>>
    /\ tally' = TallyLeave(tally, conn[c])
    /\ UNCHANGED <<msgsLeft, crashed>>

\* ws.on('pong')
Pong(c) ==
    /\ ~crashed
    /\ conn[c].rs \in {"OPEN", "CLOSING"}
    /\ conn[c].recv
    /\ ~conn[c].isAlive
    /\ conn' = [conn EXCEPT ![c].isAlive = TRUE]
    /\ sent' = <<>>
    /\ last' = Observed("pong", c, conn[c].playerId, <<>>, "")
    /\ UNCHANGED <<rooms, heap, msgsLeft, crashed, tally>>

\* Connection c is in wss.clients: its 'close' has not been emitted.
Live(c) == conn[c].rs \in {"OPEN", "CLOSING"}

\* The callback without terminate(): every client is marked and pinged.
HeartbeatOneNoTerminate(k) ==
    IF k.rs \in {"OPEN", "CLOSING"} THEN [k EXCEPT !.isAlive = FALSE] ELSE k

\* The setInterval callback over wss.clients (the transports whose 'close'
\* has not been emitted): terminate() destroys the socket, 'close' follows.
HeartbeatOne(k) ==
    IF k.rs \in {"OPEN", "CLOSING"}
    THEN IF ~k.isAlive
         THEN [k EXCEPT !.rs = "CLOSING", !.recv = FALSE]
         ELSE [k EXCEPT !.isAlive = FALSE]
    ELSE k

Heartbeat ==
    /\ ~crashed
    /\ \E c \in Conns : conn[c].rs \in {"OPEN", "CLOSING"}
    /\ conn' = [c \in Conns |-> HeartbeatOne(conn[c])]
    /\ sent' = <<>>
    /\ last' = [NoLast EXCEPT !.op = "heartbeat", !.players = StatusPlayers,
                   !.killed = {c \in Conns : Live(c) /\ ~conn[c].isAlive}]
    /\ UNCHANGED <<rooms, heap, msgsLeft, crashed, tally>>

\* ------------------------------------------------------------------- Next
\* The handlers without the heartbeat, over one room key.
Next ==
    \/ \E c \in Conns, t \in Targets \cup {InvalidTarget} : Connect(c, t)
    \/ \E c \in Conns, pid \in PlayerIdInputs \cup {NoPrimitive},
          u \in UsernameInputs \cup {NoPrimitive} : Join(c, pid, u)
    \/ \E c \in Conns, d \in Deltas : StateUpdate(c, d)
    \/ \E c \in Conns : Custom(c, "ev", ("x" :> 1))
    \/ \E c \in Conns, b \in OtherBodies : Other(c, b)
    \/ \E c \in Conns : PeerClose(c)
    \/ \E c \in Conns : Close(c)
    \/ \E c \in Conns : Error(c)

Spec == Init /\ [][Next]_vars

\* Longer runs of joins and state updates over one room key, to fill the
\* room and go on.
NextCap ==
    \/ \E c \in Conns, t \in Targets : Connect(c, t)
    \/ \E c \in Conns, pid \in PlayerIdInputs : Join(c, pid, Undefined)
    \/ \E c \in Conns : StateUpdate(c, ("x" :> 1))
    \/ \E c \in Conns : PeerClose(c)
    \/ \E c \in Conns : Close(c)
    \/ \E c \in Conns : Error(c)

SpecCap == InitCap /\ [][NextCap]_vars

\* Joins with playerIds drawn from three ids, closes and errors, over one
\* room key.
NextDistinct ==
    \/ \E c \in Conns, t \in Targets : Connect(c, t)
    \/ \E c \in Conns, pid \in PlayerIdsDistinct : Join(c, pid, Undefined)
    \/ \E c \in Conns : PeerClose(c)
    \/ \E c \in Conns : Close(c)
    \/ \E c \in Conns : Error(c)

SpecDistinct == Init /\ [][NextDistinct]_vars

\* The handlers over the room keys built from parameters with '_'.
NextKeys ==
    \/ \E c \in Conns, t \in TargetsKeys : Connect(c, t)
    \/ \E c \in Conns : Join(c, "p1", Undefined)
    \/ \E c \in Conns : StateUpdate(c, ("x" :> 1))
    \/ \E c \in Conns, d \in {("x" :> 1), UndefinedData} : Custom(c, "ev", d)
    \/ \E c \in Conns : PeerClose(c)
    \/ \E c \in Conns : Close(c)
    \/ \E c \in Conns : Error(c)

SpecKeys == Init /\ [][NextKeys]_vars

\* The handlers with the heartbeat, over one room key.
NextLive ==
    \/ \E c \in Conns, t \in Targets : Connect(c, t)
    \/ \E c \in Conns, pid \in {"p1", "p2"} : Join(c, pid, Undefined)
    \/ \E c \in Conns : PeerClose(c)
    \/ \E c \in Conns : Close(c)
    \/ \E c \in Conns : Error(c)
    \/ \E c \in Conns : Pong(c)
    \/ Heartbeat

SpecLive == Init /\ [][NextLive]_vars

\* ----------------------------------------------------------------- claims
\* Connection c is open and a join of it was accepted.
OpenJoined(c) == conn[c].rs = "OPEN" /\ conn[c].joins > 0

SamePair(c, d) ==
    conn[c].gameId = conn[d].gameId /\ conn[c].roomId = conn[d].roomId

\* The connections that hold an entry of Room object r.
Members(r) == {heap[r][i].ws : i \in 1..Len(heap[r])}

\* C1: any two open connections that were opened with the same (game, room)
\* pair and have both completed a join are members of one Room object, so
\* that what one sends is broadcast over a Room that lists the other.
C1_SameKeySameRoom ==
    \A c, d \in Conns :
        (c # d /\ OpenJoined(c) /\ OpenJoined(d) /\ SamePair(c, d))
        => conn[c].room = conn[d].room

\* C2: connections opened with different (gameId, roomId) pairs share no
\* Room, and every message a handler sends goes to a connection opened with
\* the same pair as the connection the handler belongs to.
C2_Isolation ==
    /\ \A c, d \in Conns :
          (Live(c) /\ Live(d) /\ ~SamePair(c, d)) => conn[c].room # conn[d].room
    /\ \A i \in DOMAIN sent :
          /\ conn[sent[i].to].gameId = last.gameId
          /\ conn[sent[i].to].roomId = last.roomId

\* C3 as claimed: a join processed while the room holds MAX_PLAYERS entries
\* sends the joiner one error message, closes it and leaves the room as it
\* was; a join processed while it holds fewer makes the joiner a member.
C3_RejectAtCapacity ==
    last.op = "join" =>
        IF Len(last.pre) = MAX_PLAYERS
        THEN /\ sent = <<[to |-> last.c, msg |-> ErrorMsg]>>
             /\ conn[last.c].rs = "CLOSING"
             /\ heap[last.room] = last.pre
        ELSE Len(last.pre) < MAX_PLAYERS
             => /\ MapHas(heap[last.room], last.pid)
                /\ MapGet(heap[last.room], last.pid).ws = last.c

\* C3 amended: as C3, with the error message sent exactly when the joiner's
\* transport is OPEN as the join is processed (a transport that is already
\* closing is sent nothing).
C3_RejectAtCapacityIfOpen ==
    last.op = "join" =>
        IF Len(last.pre) = MAX_PLAYERS
        THEN /\ sent = IF last.rs = "OPEN"
                       THEN <<[to |-> last.c, msg |-> ErrorMsg]>>
                       ELSE <<>>
             /\ conn[last.c].rs = "CLOSING"
             /\ heap[last.room] = last.pre
        ELSE /\ Len(last.pre) < MAX_PLAYERS
             /\ MapHas(heap[last.room], last.pid)
             /\ MapGet(heap[last.room], last.pid).ws = last.c

\* A join on an open connection was rejected by a full room.
C3_Witness ==
    /\ last.op = "join"
    /\ last.rs = "OPEN"
    /\ Len(last.pre) = MAX_PLAYERS
    /\ sent = <<[to |-> last.c, msg |-> ErrorMsg]>>

\* C4: no Room object ever holds more than MAX_PLAYERS entries.
C4_SizeAtMostMax == \A r \in Conns : Len(heap[r]) <= MAX_PLAYERS

\* A connection that had already joined sent a join to its full room.
C4_Witness ==
    /\ last.op = "join"
    /\ last.joins > 0
    /\ last.res = "full"
    /\ Len(heap[last.room]) = MAX_PLAYERS

\* The number of messages of the last handler sent to connection w that
\* satisfy Is.
CountTo(w, Is(_)) == Cardinality({i \in DOMAIN sent : sent[i].to = w /\ Is(sent[i].msg)})

IsPlayerLeftOf(pid, m) ==
    m.type = "player_left" /\ "playerId" \in DOMAIN m /\ m.playerId = pid

\* C5: when the 'close' of a connection that joined once, under a playerId
\* that is a non-empty string, and that had no 'error' is handled, every
\* remaining member of its room with an open transport is sent exactly one
\* player_left carrying that playerId and the status player total goes down
\* by one.
C5_OnePlayerLeftAndCount ==
    (last.op = "close" /\ last.joins = 1 /\ ~last.errored /\ Truthy(last.pid))
    => /\ \A w \in Members(last.room) \ {last.c} :
             conn[w].rs = "OPEN"
             => LET Left(m) == IsPlayerLeftOf(last.pid, m) IN CountTo(w, Left) = 1
       /\ StatusPlayers = last.players - 1

\* C6: the room_state sent to a connection for its first accepted join lists
\* no player under the playerId the join supplied.
C6_SnapshotExcludesJoiner ==
    (last.op = "join" /\ last.res = "ok" /\ last.joins = 0 /\ Truthy(last.pid)
     /\ sent # <<>> /\ sent[1].msg.type = "room_state")
    => \A i \in DOMAIN sent[1].msg.players :
           LET e == sent[1].msg.players[i]
           IN  "id" \in DOMAIN e => e.id # last.pid

\* C7: every message a state_update handler sends carries the submitted
\* data and none goes to the connection that submitted it.
C7_DeltaToPeersOnly ==
    last.op = "state_update"
    => \A i \in DOMAIN sent :
           /\ sent[i].msg.type = "state_update"
           /\ sent[i].msg.data = last.data
           /\ sent[i].to # last.c

\* C9: no two open connections that joined one Room hold the same playerId.
C9_UniquePlayerIds ==
    \A c, d \in Conns :
        (c # d /\ OpenJoined(c) /\ OpenJoined(d) /\ conn[c].room = conn[d].room
         /\ Truthy(conn[c].playerId))
        => conn[c].playerId # conn[d].playerId

\* C10: after a 'close' or 'error' handler that removed the last entry of
\* its Room, the Registry holds no entry for the key of that Room; and
\* after any 'close' or 'error' handler that ran the cleanup pass, no Room
\* of the Registry has zero entries (the status room count includes none).
C10_EmptiedRoomKeyGone ==
    /\ (last.op \in {"close", "error"} /\ last.res = "left"
        /\ heap[last.room] = <<>>)
       => RoomKey(last.gameId, last.roomId) \notin DOMAIN rooms
    /\ (last.op \in {"close", "error"} /\ last.res # "unjoined")
       => \A k \in DOMAIN rooms : Len(heap[rooms[k]]) > 0

\* The entries of all Room objects.
RECURSIVE TotalMembers(_)
TotalMembers(n) == IF n = 0 THEN 0 ELSE Len(heap[n]) + TotalMembers(n - 1)

\* C8: in the behaviours over one room key, as long as the joins so far
\* supplied distinct playerIds, the number of entries in the Rooms of that
\* key (the Room of the Registry and any Room a connection still holds)
\* equals the accepted joins minus the leaves.
C8_CountIsJoinsMinusLeaves ==
    tally.distinct => TotalMembers(MaxConns) = tally.net

\* C11: a message that is not a join, a state_update or a custom (a body
\* that does not parse, a parsed value without `type`, an unknown `type`) is
\* ignored: the handler sends nothing, the sender's Room, the status player
\* total and the sender's transport state stay as they were, and no
\* exception escapes the handler.
C11_MalformedIgnored ==
    last.op = "other"
    => /\ ~crashed
       /\ sent = <<>>
       /\ heap[last.room] = last.pre
       /\ StatusPlayers = last.players
       /\ conn[last.c].rs = last.rs

\* C12: when the 'close' that follows the 'error' of a connection that
\* joined once, under a playerId that is a non-empty string, is handled,
\* its Room holds no entry under that playerId and every remaining member
\* with an open transport is sent exactly one player_left carrying it (the
\* 'error' handler sends nothing, so the message is the close handler's).
C12_ErrorLikeClose ==
    (last.op = "close" /\ last.errored /\ last.joins = 1 /\ Truthy(last.pid))
    => /\ ~MapHas(heap[last.room], last.pid)
       /\ \A w \in Members(last.room) \ {last.c} :
             conn[w].rs = "OPEN"
             => LET Left(m) == IsPlayerLeftOf(last.pid, m) IN CountTo(w, Left) = 1

\* C13: a custom message from a connection none of whose joins was accepted
\* is sent to nobody, changes no Room and raises no exception.
C13_CustomNeedsJoin ==
    (last.op = "custom" /\ last.joins = 0)
    => /\ sent = <<>>
       /\ heap[last.room] = last.pre
       /\ ~crashed

\* C14: a join message without playerId inserts nothing into the Room,
\* sends nothing, and leaves the connection open and not joined.
C14_JoinWithoutIdIgnored ==
    (last.op = "join" /\ ~Truthy(last.pid))
    => /\ heap[last.room] = last.pre
       /\ sent = <<>>
       /\ conn[last.c].rs = last.rs
       /\ conn[last.c].joins = last.joins

\* C17: a join rejected by a full room leaves the Room as it was, and so
\* does the 'close' of a connection whose joins were all rejected: that
\* close removes no entry and sends no message, whatever playerId the
\* rejected join supplied.
C17_RejectedJoinHarmless ==
    /\ (last.op = "join" /\ last.res = "full")
       => /\ heap[last.room] = last.pre
          /\ \A i \in DOMAIN sent : sent[i].to = last.c
    /\ (last.op = "close" /\ last.joins = 0 /\ last.pid # Null)
       => /\ heap[last.room] = last.pre
          /\ sent = <<>>

\* C18: once the 'close' of a connection has been handled, no Room object
\* holds an entry whose ws is that connection.
C18_NoGhostSessions ==
    \A c \in Conns :
        conn[c].rs = "CLOSED" => \A r \in Conns : c \notin Members(r)

IsPlayerJoinedOf(pid, m) ==
    m.type = "player_joined" /\ "playerId" \in DOMAIN m /\ m.playerId = pid

\* C19: an accepted join first sends the joiner a room_state listing the
\* entries the Room held before the insertion, the Room then holds the
\* joiner's entry, and after the room_state the handler sends exactly one
\* player_joined carrying the joiner's playerId to every other connection
\* that has an entry in the Room and an open transport, and nothing to the
\* joiner.
C19_JoinSteps ==
    (last.op = "join" /\ last.res = "ok")
    => /\ sent # <<>>
       /\ sent[1] = [to |-> last.c, msg |-> RoomStateMsg(last.pre)]
       /\ MapHas(heap[last.room], last.pid)
       /\ MapGet(heap[last.room], last.pid).ws = last.c
       /\ \A w \in Members(last.room) \ {last.c} :
             conn[w].rs = "OPEN"
             => LET Joined(m) == IsPlayerJoinedOf(last.pid, m)
                IN  CountTo(w, Joined) = 1
       /\ \A i \in 2..Len(sent) : sent[i].to # last.c

\* C20: when some connection was opened and every connection that was
\* opened is CLOSED with its close handler done, the Registry is empty (the
\* status reports 0 rooms and 0 players).
C20_NoRoomAtQuiescence ==
    (/\ \E c \in Conns : conn[c].rs = "CLOSED"
     /\ \A c \in Conns : conn[c].rs \in {"NONE", "CLOSED"})
    => /\ StatusRooms = 0
       /\ StatusPlayers = 0

\* C15: a sweep of the monitor terminates every connection of wss.clients
\* whose flag is still pending and marks every other one pending, leaving
\* its transport as it was.  A connection starts with the flag set and only
\* its own pong sets a pending flag again, so that a connection that sends
\* no pong is terminated by the second sweep after it connected and one
\* that sends a pong between every two sweeps is never terminated by the
\* monitor.  A connection becomes CLOSED only by its close handler, which
\* leaves no entry under its playerId in its Room.
C15_LivenessMonitor ==
    [][/\ last'.op = "heartbeat"
          => \A c \in Conns :
                Live(c)
                => IF ~conn[c].isAlive
                   THEN conn'[c].rs = "CLOSING" /\ ~conn'[c].recv
                   ELSE /\ ~conn'[c].isAlive
                        /\ conn'[c].rs = conn[c].rs
                        /\ conn'[c].recv = conn[c].recv
       /\ \A c \in Conns :
             /\ (conn[c].rs = "NONE" /\ conn'[c].rs # "NONE") => conn'[c].isAlive
             /\ (Live(c) /\ ~conn[c].isAlive /\ conn'[c].isAlive)
                => (last'.op = "pong" /\ last'.c = c)
             /\ (Live(c) /\ conn'[c].rs = "CLOSED")
                => /\ last'.op = "close" /\ last'.c = c
                   /\ Truthy(last'.pid) => ~MapHas(heap'[last'.room], last'.pid)
      ]_vars

\* A sweep terminated a joined connection that had been marked by the
\* sweep before and whose transport was open until then.
C15_Witness ==
    /\ last.op = "heartbeat"
    /\ \E c \in last.killed :
          /\ conn[c].rs = "CLOSING"
          /\ ~conn[c].recv
          /\ conn[c].joins > 0
          /\ ~conn[c].errored
          /\ \E w \in Members(conn[c].room) : w # c /\ conn[w].rs = "OPEN"

====
